---- MODULE Spec2Model ----
(***************************************************************************)
(* A model of the audio analysis pipeline of analyse.py (AudioAnalyser)    *)
(* and of its GUI caller in main.py (AnalysisWorker, MainWindow).          *)
(*                                                                         *)
(* Four specifications share the module:                                   *)
(*   SpecKey    AudioAnalyser.estimate_key on bounded chromagrams          *)
(*   SpecMeter  AudioAnalyser.estimate_time_signature, statement by        *)
(*              statement, on bounded beat tracks and onset envelopes      *)
(*   Spec       one analysis run: run_analysis (analyse.py __main__) or    *)
(*              AnalysisWorker.run with the MainWindow slots               *)
(*   SpecCalls  load_audio, extract_bpm, extract_chromagram and            *)
(*              estimate_time_signature called in any order, any number    *)
(*              of times, on one AudioAnalyser                             *)
(*                                                                         *)
(* Arithmetic is exact (integers and rationals); numpy's float64 rounding  *)
(* is not modelled.  A NaN is modelled explicitly where numpy produces one *)
(* (0/0 in corrcoef).                                                      *)
(***************************************************************************)
EXTENDS Integers, Sequences, FiniteSets, TLC

VARIABLES
    \* ---- estimate_key (SpecKey)
    chroma_features,   \* the argument: a sequence of frames, each 12 energies
    key_pc,            \* position inside estimate_key
    chroma_sum,        \* local chroma_sum
    correlations,      \* local correlations
    best_match_index,  \* local best_match_index, -1 before it is set
    key_result,        \* the returned string, "" before the return
    \* ---- estimate_time_signature (SpecMeter)
    ts_pc,             \* position inside estimate_time_signature
    ts_y,              \* self.y: "None" or "wave"
    ts_input,          \* what librosa will return for this waveform
    beats,             \* local beats (frame indices)
    onset_strength,    \* local onset_strength (envelope)
    beat_strengths,    \* local beat_strengths (scaled by Scale)
    meters_left,       \* the part of [2, 3, 4] the for loop has still to visit
    best_meter,        \* local best_meter
    max_diff,          \* local max_diff, a rational [num, den]
    ts_return,         \* the returned string, "" before the return
    ts_exit,           \* the return statement taken, "" before the return
    \* ---- one analysis run (Spec)
    entry,             \* "none" | "cli" (analyse.py __main__) | "gui"
    pc,                \* position of the run in run_analysis / AnalysisWorker.run
    file_ok,           \* whether librosa.load can decode file_path
    y,                 \* analyser.y: "None" or "wave"
    sr,                \* analyser.sr: "None" or "rate"
    bpm,               \* analyser.bpm
    chromagram,        \* analyser.chromagram: <<>> (None) or <<matrix>>
    time_signature,    \* analyser.time_signature
    exc,               \* the exception raised in the run, "" when none
    signals,           \* emitted signals queued for the main thread's slots
    emitted,           \* every signal the worker emitted, in order
    calls,             \* the stages called so far, in order
    printed,           \* what the console run printed: "", "results", "error"
    progress_visible,  \* MainWindow.progress_bar
    load_enabled,      \* MainWindow.load_button
    bpm_label,         \* MainWindow.bpm_label, after "BPM: "
    key_label,         \* MainWindow.key_label, after "Key: "
    ts_label,          \* MainWindow.time_signature_label, after the prefix
    \* ---- method calls in any order on one AudioAnalyser (SpecCalls)
    call,              \* the method called last, "" before any call
    call_result,       \* what that call returned, "raised" when it raised
    load_succeeded     \* whether some load_audio call has returned True

keyVars == <<chroma_features, key_pc, chroma_sum, correlations,
             best_match_index, key_result>>
meterVars == <<ts_pc, ts_y, ts_input, beats, onset_strength, beat_strengths,
               meters_left, best_meter, max_diff, ts_return, ts_exit>>
analyserVars == <<y, sr, bpm, chromagram, time_signature>>
guiVars == <<progress_visible, load_enabled, bpm_label, key_label, ts_label>>
pipeVars == <<entry, pc, file_ok, analyserVars, exc, signals, emitted, calls,
              printed, guiVars>>
callVars == <<call, call_result, load_succeeded>>
vars == <<keyVars, meterVars, pipeVars, callVars>>

(***************************************************************************)
(* Bounds of the model.                                                    *)
(***************************************************************************)
MaxFrames == 2
MaxEnvLen == 5
MaxOnset == 1
MaxRunFrames == 1

(***************************************************************************)
(* Helpers on sequences of integers.                                       *)
(***************************************************************************)
RECURSIVE SumFrom(_, _)
SumFrom(s, j) == IF j > Len(s) THEN 0 ELSE s[j] + SumFrom(s, j + 1)

SumSeq(s) == SumFrom(s, 1)

RECURSIVE DotFrom(_, _, _)
DotFrom(a, b, j) ==
    IF j > Len(a) THEN 0 ELSE a[j] * b[j] + DotFrom(a, b, j + 1)

Dot(a, b) == DotFrom(a, b, 1)

(***************************************************************************)
(* estimate_key                                                            *)
(***************************************************************************)
NumPitches == 12

pitches == <<"C", "C#", "D", "D#", "E", "F", "F#", "G", "G#", "A", "A#", "B">>

major_profile == <<1, 0, 1, 0, 1, 1, 0, 1, 0, 1, 0, 1>>
harmonic_minor_profile == <<1, 0, 1, 1, 0, 1, 0, 1, 1, 0, 0, 1>>
minor_profile == <<1, 0, 1, 1, 0, 1, 0, 1, 1, 0, 1, 0>>

\* np.roll(p, i): element j of the result is element (j - i) mod n of p
\* (0-based); sequences here are 1-based.
\* That is: the last i elements move to the front.
Roll(p, i) ==
    LET n == Len(p)
        k == i % n
    IN  SubSeq(p, n - k + 1, n) \o SubSeq(p, 1, n - k)

\* np.sum(chroma_features, axis=1): per pitch class, the sum over the frames.
RECURSIVE SumOverFrames(_, _, _)
SumOverFrames(c, j, f) ==
    IF f > Len(c) THEN 0 ELSE c[f][j] + SumOverFrames(c, j, f + 1)

RECURSIVE ChromaSumFrom(_, _)
ChromaSumFrom(c, j) ==
    IF j > NumPitches THEN <<>>
    ELSE <<SumOverFrames(c, j, 1)>> \o ChromaSumFrom(c, j + 1)

ChromaSum(c) == ChromaSumFrom(c, 1)

\* np.corrcoef(x, p)[0, 1] = cov(x, p) / sqrt(var(x) * var(p)), kept as the
\* numerator n * sum(x p) - sum(x) sum(p) and the square of the denominator
\* (n sum(x^2) - sum(x)^2) * (n sum(p^2) - sum(p)^2).  The value is NaN (0/0)
\* exactly when the squared denominator is 0.
Corrcoef(x, p) ==
    LET n == Len(x)
        sx == SumSeq(x)
        sp == SumSeq(p)
    IN  [num  |-> n * Dot(x, p) - sx * sp,
         den2 |-> (n * Dot(x, x) - sx * sx) * (n * Dot(p, p) - sp * sp)]

IsNaN(c) == c.den2 = 0

\* a > b on floats: FALSE when either is NaN.
CorrGreater(a, b) ==
    /\ ~IsNaN(a)
    /\ ~IsNaN(b)
    /\ IF a.num >= 0 /\ b.num < 0 THEN TRUE
       ELSE IF a.num < 0 /\ b.num >= 0 THEN FALSE
       ELSE IF a.num >= 0
            THEN a.num * a.num * b.den2 > b.num * b.num * a.den2
            ELSE a.num * a.num * b.den2 < b.num * b.num * a.den2

\* The loop of lines 85-91: for i in range(12), append the correlation with
\* major key i, then the one with minor key i.
RECURSIVE RolledFrom(_, _)
RolledFrom(p, i) ==
    IF i >= NumPitches THEN <<>> ELSE <<Roll(p, i)>> \o RolledFrom(p, i + 1)

\* major_key_profile and minor_key_profile of iteration i, at index i + 1.
major_key_profiles == RolledFrom(major_profile, 0)
minor_key_profiles == RolledFrom(minor_profile, 0)

RECURSIVE CorrelationLoop(_, _)
CorrelationLoop(x, i) ==
    IF i >= NumPitches THEN <<>>
    ELSE <<Corrcoef(x, major_key_profiles[i + 1]),
           Corrcoef(x, minor_key_profiles[i + 1])>>
         \o CorrelationLoop(x, i + 1)

Correlations(x) == CorrelationLoop(x, 0)

\* np.argmax over floats: a scan that replaces the running maximum by a
\* strictly greater element, and stops at the first NaN, which it returns.
RECURSIVE ArgMaxFrom(_, _, _)
ArgMaxFromLast(cs, i, best) ==
    IF i > Len(cs) THEN best
    ELSE IF IsNaN(cs[best]) THEN best
    ELSE IF IsNaN(cs[i]) \/ ~CorrGreater(cs[best], cs[i])
         THEN ArgMaxFrom(cs, i + 1, i)
         ELSE ArgMaxFrom(cs, i + 1, best)
ArgMaxFrom(cs, i, best) ==
    IF i > Len(cs) THEN best
    ELSE IF IsNaN(cs[best]) THEN best
    ELSE IF IsNaN(cs[i]) \/ CorrGreater(cs[i], cs[best])
         THEN ArgMaxFrom(cs, i + 1, i)
         ELSE ArgMaxFrom(cs, i + 1, best)

\* 0-based, as numpy returns it.
ArgMax(cs) == ArgMaxFrom(cs, 2, 1) - 1

KeyString(key_index, is_major) ==
    pitches[key_index + 1] \o " " \o (IF is_major THEN "Major" ELSE "Minor")

KeyOfIndex(index) ==
    LET key_index == index \div 2
        is_major == index % 2 = 0
    IN  KeyString(key_index, is_major)

\* The whole function, as one expression.
estimate_key(c) == KeyOfIndex(ArgMax(Correlations(ChromaSum(c))))

(***************************************************************************)
(* Inputs of estimate_key: chromagrams of MaxFrames frames, each frame     *)
(* silent or a pure tone (chroma_stft normalises a frame to maximum 1).    *)
(***************************************************************************)
SilentFrame == [j \in 1..NumPitches |-> 0]
ToneFrame(pitch) ==
    [j \in 1..NumPitches |-> IF j = pitch + 1 THEN 1 ELSE 0]
Frames ==
    {SilentFrame} \cup {ToneFrame(pitch) : pitch \in 0..(NumPitches - 1)}
Chromagrams(n) == [1..n -> Frames]

(***************************************************************************)
(* estimate_time_signature                                                 *)
(***************************************************************************)
\* The window of lines 138-139 reaches WindowBefore frames before the beat
\* and ends (exclusive) WindowAfter frames after it.
WindowBefore == 2
WindowAfter == 2

\* Beat strengths are means of 1 to WindowBefore + WindowAfter envelope
\* values; they are kept as integers, multiplied by Scale, which every
\* possible window length divides.
Scale == 3 * (WindowBefore + WindowAfter)

Max(a, b) == IF a >= b THEN a ELSE b
Min(a, b) == IF a <= b THEN a ELSE b

\* np.diff(beats): one entry per pair of neighbours.
Diff(b) == [i \in 1..Max(Len(b) - 1, 0) |-> b[i + 1] - b[i]]

\* onset_strength[start_frame:end_frame] of lines 138-140 (frames 0-based,
\* the slice excludes end_frame).
BeatWindow(onset, beat_frame) ==
    LET start_frame == Max(0, beat_frame - WindowBefore)
        end_frame == Min(Len(onset), beat_frame + WindowAfter)
    IN  SubSeq(onset, start_frame + 1, end_frame)

\* np.mean of the window, times Scale.
BeatStrength(onset, beat_frame) ==
    LET w == BeatWindow(onset, beat_frame)
    IN  (SumSeq(w) * Scale) \div Len(w)

\* The loop of lines 134-140.
BeatStrengths(bts, onset) ==
    [i \in 1..Len(bts) |-> BeatStrength(onset, bts[i])]

\* len(beat_intervals) < 2, line 121
TooFewIntervals(beat_intervals) == Len(beat_intervals) < 2

\* len(beat_strengths) < 4, line 142
TooFewBeatsRelaxed(strengths) == Len(strengths) < 3
TooFewBeats(strengths) == Len(strengths) < 4

\* Rationals [num, den] with den > 0.
RatGreater(a, b) == a.num * b.den > b.num * a.den

\* lines 151-154: the mean strength of the beats i with i % meter = 0 minus
\* the mean strength of the others (i is 0-based), as a rational.
MeterDiff(strengths, meter) ==
    LET n == Len(strengths)
        first == {i \in 0..(n - 1) : i % meter = 0}
        others == {i \in 0..(n - 1) : i % meter # 0}
        s_first == SumSeq([k \in 1..n |->
                      IF (k - 1) \in first THEN strengths[k] ELSE 0])
        s_others == SumSeq([k \in 1..n |->
                      IF (k - 1) \in others THEN strengths[k] ELSE 0])
        n_first == Cardinality(first)
        n_others == Cardinality(others)
    IN  [num |-> s_first * n_others - s_others * n_first,
         den |-> n_first * n_others]

\* One iteration of the loop of lines 149-158 on the pair
\* st = [best_meter, max_diff].
MeterStepTiesLater(strengths, st, meter) ==
    LET diff == MeterDiff(strengths, meter)
    IN  IF ~RatGreater(st.max_diff, diff)
        THEN [best_meter |-> meter, max_diff |-> diff]
        ELSE st
MeterStep(strengths, st, meter) ==
    LET diff == MeterDiff(strengths, meter)
    IN  IF RatGreater(diff, st.max_diff)
        THEN [best_meter |-> meter, max_diff |-> diff]
        ELSE st

\* lines 146-147 and the list of line 149
MeterInit == [best_meter |-> 4, max_diff |-> [num |-> 0, den |-> 1]]
Meters == <<2, 3, 4>>

RECURSIVE MeterLoop(_, _, _)
MeterLoop(strengths, st, todo) ==
    IF todo = <<>> THEN st
    ELSE MeterLoop(strengths, MeterStep(strengths, st, Head(todo)), Tail(todo))

\* f"{best_meter}/4"
MeterString(m) ==
    (CASE m = 2 -> "2" [] m = 3 -> "3" [] m = 4 -> "4") \o "/4"

\* The whole function, as one expression: wave is self.y, inp what librosa
\* returns for it.
estimate_time_signature(wave, inp) ==
    IF wave = "None" THEN "N/A"
    ELSE IF TooFewIntervals(Diff(inp.beats)) THEN "N/A"
    ELSE LET strengths == BeatStrengths(inp.beats, inp.onset)
         IN  IF TooFewBeats(strengths) THEN "4/4"
             ELSE MeterString(
                    MeterLoop(strengths, MeterInit, Meters).best_meter)

(***************************************************************************)
(* Inputs of estimate_time_signature: an onset envelope of at most         *)
(* MaxEnvLen frames with strengths 0..MaxOnset, and a beat track of        *)
(* increasing frames of the envelope.                                      *)
(***************************************************************************)
RECURSIVE SortedSeq(_)
SortedSeq(S) ==
    IF S = {} THEN <<>>
    ELSE LET m == CHOOSE x \in S : \A z \in S : x <= z
         IN  <<m>> \o SortedSeq(S \ {m})

BeatTracks(L) == {SortedSeq(B) : B \in SUBSET (0..(L - 1))}

TSInputsOfLen(L) == [beats : BeatTracks(L), onset : [1..L -> 0..MaxOnset]]

TSInputs == UNION {TSInputsOfLen(L) : L \in 0..MaxEnvLen}

NoInput == [beats |-> <<>>, onset |-> <<>>]

(***************************************************************************)
(* One analysis run: AudioAnalyser's methods as run_analysis and           *)
(* AnalysisWorker.run call them.                                           *)
(***************************************************************************)
\* What librosa.feature.tempo may return, and the label text for it.
Tempos == {60, 120}

\* f"{np.median(analyser.bpm):.2f}"
TempoString(t) == CASE t = 60 -> "60.00" [] t = 120 -> "120.00"

\* What librosa.feature.chroma_stft may return in a run.
RunChromagrams == UNION {Chromagrams(n) : n \in 1..MaxRunFrames}

\* What estimate_time_signature may return on a loaded waveform: the values
\* of its return statements (lines 122, 143, 160).
TSOutcomes ==
    {"N/A", "4/4"}
        \cup {MeterString(m) :
                m \in {MeterInit.best_meter} \cup {Meters[i] : i \in 1..Len(Meters)}}

\* The position after load_audio returned ok, by entry point:
\* run_analysis line 166, AnalysisWorker.run lines 37-38.
AfterLoadIgnoringFailure(e, ok) == "bpm"
AfterLoad(e, ok) ==
    IF ok THEN "bpm"
    ELSE IF e = "gui" THEN "except" ELSE "done"

\* The position after a stage returned: run_analysis lines 167-170,
\* AnalysisWorker.run lines 40-44.
AfterStageTimeSignatureFirst(e, stage) ==
    CASE stage = "bpm" -> "ts"
      [] stage = "ts" -> "chroma"
      [] stage = "chroma" -> IF e = "gui" THEN "emit_result" ELSE "print"
AfterStage(e, stage) ==
    CASE stage = "bpm" -> "chroma"
      [] stage = "chroma" -> "ts"
      [] stage = "ts" -> IF e = "gui" THEN "emit_result" ELSE "print"

\* The position after the worker emitted a signal: lines 44-48 (the finally
\* clause follows the try body and the except clause alike).
AfterEmitErrorEnds(sig) ==
    CASE sig = "result" -> "finally"
      [] sig = "error" -> "done"
      [] sig = "finished" -> "done"
AfterEmit(sig) ==
    CASE sig = "result" -> "finally"
      [] sig = "error" -> "finally"
      [] sig = "finished" -> "done"

MeterIdle ==
    /\ ts_pc = "idle"
    /\ ts_y = "None"
    /\ ts_input = <<>>
    /\ beats = <<>>
    /\ onset_strength = <<>>
    /\ beat_strengths = <<>>
    /\ meters_left = <<>>
    /\ best_meter = 0
    /\ max_diff = [num |-> 0, den |-> 1]
    /\ ts_return = ""
    /\ ts_exit = ""

KeyIdle ==
    /\ chroma_features = <<>>
    /\ key_pc = "idle"
    /\ chroma_sum = <<>>
    /\ correlations = <<>>
    /\ best_match_index = -1
    /\ key_result = ""

\* No method has been called from outside a run.
CallIdle ==
    /\ call = ""
    /\ call_result = ""
    /\ load_succeeded = FALSE

\* AudioAnalyser.__init__ (analyse.py 16-28) and MainWindow.__init__.
PipeInit ==
    /\ entry = "none"
    /\ pc = "idle"
    /\ file_ok = FALSE
    /\ y = "None"
    /\ sr = "None"
    /\ bpm = 0
    /\ chromagram = <<>>
    /\ time_signature = "N/A"
    /\ exc = ""
    /\ signals = <<>>
    /\ emitted = <<>>
    /\ calls = <<>>
    /\ printed = ""
    /\ progress_visible = FALSE
    /\ load_enabled = TRUE
    /\ bpm_label = "--"
    /\ key_label = "--"
    /\ ts_label = "--"

InitKey ==
    /\ chroma_features \in Chromagrams(MaxFrames)
    /\ key_pc = "sum"
    /\ chroma_sum = <<>>
    /\ correlations = <<>>
    /\ best_match_index = -1
    /\ key_result = ""
    /\ MeterIdle
    /\ PipeInit
    /\ CallIdle

\* line 81
KeySum ==
    /\ key_pc = "sum"
    /\ chroma_sum' = ChromaSum(chroma_features)
    /\ key_pc' = "correlate"
    /\ UNCHANGED <<chroma_features, correlations, best_match_index,
                   key_result, meterVars, pipeVars, callVars>>

\* lines 83-91
KeyCorrelate ==
    /\ key_pc = "correlate"
    /\ correlations' = Correlations(chroma_sum)
    /\ key_pc' = "argmax"
    /\ UNCHANGED <<chroma_features, chroma_sum, best_match_index,
                   key_result, meterVars, pipeVars, callVars>>

\* line 94
KeyArgmax ==
    /\ key_pc = "argmax"
    /\ best_match_index' = ArgMax(correlations)
    /\ key_pc' = "return"
    /\ UNCHANGED <<chroma_features, chroma_sum, correlations,
                   key_result, meterVars, pipeVars, callVars>>

\* lines 95-101
KeyReturn ==
    /\ key_pc = "return"
    /\ key_result' = KeyOfIndex(best_match_index)
    /\ key_pc' = "done"
    /\ UNCHANGED <<chroma_features, chroma_sum, correlations,
                   best_match_index, meterVars, pipeVars, callVars>>

NextKey == KeySum \/ KeyCorrelate \/ KeyArgmax \/ KeyReturn

SpecKey == InitKey /\ [][NextKey]_vars

(***************************************************************************)
(* SpecMeter: one call of estimate_time_signature.                         *)
(***************************************************************************)
InitMeter ==
    /\ \/ ts_y = "None" /\ ts_input = NoInput
       \/ ts_y = "wave" /\ ts_input \in TSInputs
    /\ ts_pc = "entry"
    /\ beats = <<>>
    /\ onset_strength = <<>>
    /\ beat_strengths = <<>>
    /\ meters_left = <<>>
    /\ best_meter = 0
    /\ max_diff = [num |-> 0, den |-> 1]
    /\ ts_return = ""
    /\ ts_exit = ""
    /\ KeyIdle
    /\ PipeInit
    /\ CallIdle

TSReturns(value, exit) ==
    /\ ts_return' = value
    /\ ts_exit' = exit
    /\ ts_pc' = "done"

\* lines 108-110
TSGuard ==
    /\ ts_pc = "entry"
    /\ IF ts_y = "None"
       THEN TSReturns("N/A", "not_loaded")
       ELSE ts_pc' = "beat_track" /\ UNCHANGED <<ts_return, ts_exit>>
    /\ UNCHANGED <<ts_y, ts_input, beats, onset_strength, beat_strengths,
                   meters_left, best_meter, max_diff, keyVars, pipeVars, callVars>>

\* lines 113-122
TSBeatTrack ==
    /\ ts_pc = "beat_track"
    /\ beats' = ts_input.beats
    /\ IF TooFewIntervals(Diff(ts_input.beats))
       THEN TSReturns("N/A", "few_intervals")
       ELSE ts_pc' = "strengths" /\ UNCHANGED <<ts_return, ts_exit>>
    /\ UNCHANGED <<ts_y, ts_input, onset_strength, beat_strengths,
                   meters_left, best_meter, max_diff, keyVars, pipeVars, callVars>>

\* lines 132-147
TSStrengths ==
    /\ ts_pc = "strengths"
    /\ onset_strength' = ts_input.onset
    /\ beat_strengths' = BeatStrengths(beats, ts_input.onset)
    /\ IF TooFewBeats(beat_strengths')
       THEN /\ TSReturns("4/4", "default")
            /\ UNCHANGED <<meters_left, best_meter, max_diff>>
       ELSE /\ ts_pc' = "loop"
            /\ best_meter' = MeterInit.best_meter
            /\ max_diff' = MeterInit.max_diff
            /\ meters_left' = Meters
            /\ UNCHANGED <<ts_return, ts_exit>>
    /\ UNCHANGED <<ts_y, ts_input, beats, keyVars, pipeVars, callVars>>

\* lines 149-158, one iteration
TSMeterStep ==
    /\ ts_pc = "loop"
    /\ meters_left # <<>>
    /\ LET st == MeterStep(beat_strengths,
                           [best_meter |-> best_meter, max_diff |-> max_diff],
                           Head(meters_left))
       IN  /\ best_meter' = st.best_meter
           /\ max_diff' = st.max_diff
    /\ meters_left' = Tail(meters_left)
    /\ UNCHANGED <<ts_pc, ts_y, ts_input, beats, onset_strength,
                   beat_strengths, ts_return, ts_exit, keyVars,
                   pipeVars, callVars>>

\* line 160
TSReturn ==
    /\ ts_pc = "loop"
    /\ meters_left = <<>>
    /\ TSReturns(MeterString(best_meter), "scored")
    /\ UNCHANGED <<ts_y, ts_input, beats, onset_strength, beat_strengths,
                   meters_left, best_meter, max_diff, keyVars, pipeVars, callVars>>

NextMeter == TSGuard \/ TSBeatTrack \/ TSStrengths \/ TSMeterStep \/ TSReturn

SpecMeter == InitMeter /\ [][NextMeter]_vars

(***************************************************************************)
(* Spec: one analysis run, from the console (analyse.py __main__) or from  *)
(* the GUI (MainWindow.start_analysis, AnalysisWorker.run on a pool        *)
(* thread, the slots on the main thread).                                  *)
(***************************************************************************)
Init == PipeInit /\ KeyIdle /\ MeterIdle /\ CallIdle

\* analyse.py 195-198: AudioAnalyser(path).run_analysis()
MainCli ==
    /\ entry = "none"
    /\ entry' = "cli"
    /\ pc' = "load"
    /\ file_ok' \in BOOLEAN
    /\ UNCHANGED <<analyserVars, exc, signals, emitted, calls, printed,
                   guiVars, keyVars, meterVars, callVars>>

\* main.py 231-246: MainWindow.start_analysis
StartAnalysis ==
    /\ entry = "none"
    /\ load_enabled
    /\ entry' = "gui"
    /\ pc' = "load"
    /\ file_ok' \in BOOLEAN
    /\ progress_visible' = TRUE
    /\ load_enabled' = FALSE
    /\ bpm_label' = "Analyzing..."
    /\ key_label' = "Analyzing..."
    /\ ts_label' = "Analyzing..."
    /\ UNCHANGED <<analyserVars, exc, signals, emitted, calls, printed,
                   keyVars, meterVars, callVars>>

\* analyse.py 30-44: load_audio, with the caller's test of its result
LoadAudio ==
    /\ pc = "load"
    /\ calls' = Append(calls, "load_audio")
    /\ IF file_ok
       THEN y' = "wave" /\ sr' = "rate"
       ELSE UNCHANGED <<y, sr>>
    /\ pc' = AfterLoad(entry, file_ok)
    /\ exc' = IF pc' = "except" THEN "ValueError" ELSE exc
    /\ UNCHANGED <<entry, file_ok, bpm, chromagram, time_signature, signals,
                   emitted, printed, guiVars, keyVars, meterVars, callVars>>

\* A stage raises: an exception of a librosa call, which is made only on a
\* loaded waveform.  AnalysisWorker.run catches it (line 45), as does
\* analyse.py line 199.
StageRaises ==
    /\ pc \in {"bpm", "chroma", "ts"}
    /\ y # "None"
    /\ calls' = Append(calls,
                  CASE pc = "bpm" -> "extract_bpm"
                    [] pc = "chroma" -> "extract_chromagram"
                    [] pc = "ts" -> "estimate_time_signature")
    /\ exc' = "Exception"
    /\ pc' = "except"
    /\ UNCHANGED <<entry, file_ok, analyserVars, signals, emitted, printed,
                   guiVars, keyVars, meterVars, callVars>>

\* analyse.py 46-55: extract_bpm
ExtractBpm ==
    /\ pc = "bpm"
    /\ calls' = Append(calls, "extract_bpm")
    /\ IF y # "None" THEN bpm' \in Tempos ELSE bpm' = bpm
    /\ pc' = AfterStage(entry, "bpm")
    /\ UNCHANGED <<entry, file_ok, y, sr, chromagram, time_signature, exc,
                   signals, emitted, printed, guiVars, keyVars, meterVars, callVars>>

\* analyse.py 57-67: extract_chromagram
ExtractChromagram ==
    /\ pc = "chroma"
    /\ calls' = Append(calls, "extract_chromagram")
    /\ IF y # "None"
       THEN \E m \in RunChromagrams : chromagram' = <<m>>
       ELSE chromagram' = chromagram
    /\ pc' = AfterStage(entry, "chroma")
    /\ UNCHANGED <<entry, file_ok, y, sr, bpm, time_signature, exc,
                   signals, emitted, printed, guiVars, keyVars, meterVars, callVars>>

\* analyse.py 103-160, and the assignment of analyse.py 169 / main.py 42
EstimateTimeSignature ==
    /\ pc = "ts"
    /\ calls' = Append(calls, "estimate_time_signature")
    /\ IF y # "None"
       THEN time_signature' \in TSOutcomes
       ELSE time_signature' = estimate_time_signature(y, NoInput)
    /\ pc' = AfterStage(entry, "ts")
    /\ UNCHANGED <<entry, file_ok, y, sr, bpm, chromagram, exc,
                   signals, emitted, printed, guiVars, keyVars, meterVars, callVars>>

Emit(sig) ==
    /\ signals' = Append(signals, sig)
    /\ emitted' = Append(emitted, sig)
    /\ pc' = AfterEmit(sig)

\* main.py 44
EmitResult ==
    /\ entry = "gui"
    /\ pc = "emit_result"
    /\ Emit("result")
    /\ UNCHANGED <<entry, file_ok, analyserVars, exc, calls, printed,
                   guiVars, keyVars, meterVars, callVars>>

\* main.py 45-46
EmitError ==
    /\ entry = "gui"
    /\ pc = "except"
    /\ Emit("error")
    /\ UNCHANGED <<entry, file_ok, analyserVars, exc, calls, printed,
                   guiVars, keyVars, meterVars, callVars>>

\* main.py 47-48
EmitFinished ==
    /\ entry = "gui"
    /\ pc = "finally"
    /\ Emit("finished")
    /\ UNCHANGED <<entry, file_ok, analyserVars, exc, calls, printed,
                   guiVars, keyVars, meterVars, callVars>>

\* analyse.py 170, 172-190: print_results
PrintResults ==
    /\ entry = "cli"
    /\ pc = "print"
    /\ printed' = "results"
    /\ pc' = "done"
    /\ UNCHANGED <<entry, file_ok, analyserVars, exc, signals, emitted,
                   calls, guiVars, keyVars, meterVars, callVars>>

\* analyse.py 199-201
MainExcept ==
    /\ entry = "cli"
    /\ pc = "except"
    /\ printed' = "error"
    /\ pc' = "done"
    /\ UNCHANGED <<entry, file_ok, analyserVars, exc, signals, emitted,
                   calls, guiVars, keyVars, meterVars, callVars>>

\* main.py 248-258: the slot of result, run on the main thread.  On a
\* chromagram of None, estimate_key raises (np.sum of None along axis 1) and
\* the slot ends before it sets a label.
AnalysisComplete ==
    /\ signals # <<>>
    /\ Head(signals) = "result"
    /\ signals' = Tail(signals)
    /\ calls' = Append(calls, "estimate_key")
    /\ IF chromagram = <<>>
       THEN UNCHANGED <<key_label, bpm_label, ts_label>>
       ELSE /\ key_label' = estimate_key(chromagram[1])
            /\ bpm_label' = TempoString(bpm)
            /\ ts_label' = time_signature
    /\ UNCHANGED <<entry, pc, file_ok, analyserVars, exc, emitted, printed,
                   progress_visible, load_enabled, keyVars, meterVars, callVars>>

\* main.py 320-329: the slot of error
AnalysisError ==
    /\ signals # <<>>
    /\ Head(signals) = "error"
    /\ signals' = Tail(signals)
    /\ bpm_label' = "--"
    /\ key_label' = "--"
    /\ ts_label' = "--"
    /\ UNCHANGED <<entry, pc, file_ok, analyserVars, exc, emitted, calls,
                   printed, progress_visible, load_enabled, keyVars,
                   meterVars, callVars>>

\* main.py 331-334: the slot of finished
AnalysisFinished ==
    /\ signals # <<>>
    /\ Head(signals) = "finished"
    /\ signals' = Tail(signals)
    /\ progress_visible' = FALSE
    /\ load_enabled' = TRUE
    /\ UNCHANGED <<entry, pc, file_ok, analyserVars, exc, emitted, calls,
                   printed, bpm_label, key_label, ts_label, keyVars,
                   meterVars, callVars>>

Next ==
    \/ MainCli \/ StartAnalysis
    \/ LoadAudio \/ StageRaises
    \/ ExtractBpm \/ ExtractChromagram \/ EstimateTimeSignature
    \/ EmitResult \/ EmitError \/ EmitFinished
    \/ PrintResults \/ MainExcept
    \/ AnalysisComplete \/ AnalysisError \/ AnalysisFinished

Spec == Init /\ [][Next]_vars

(***************************************************************************)
(* SpecCalls: the four stage methods of one AudioAnalyser, called in any   *)
(* order and any number of times.  librosa.load may succeed on one call    *)
(* and fail on another (the file is read anew by every call).              *)
(***************************************************************************)
\* "self.y is not None", lines 52, 63 and 108
LoadedAlways(wave) == TRUE
Loaded(wave) == wave # "None"

InitCalls == PipeInit /\ KeyIdle /\ MeterIdle /\ CallIdle

\* What a call leaves alone in every case.
CallFrame ==
    UNCHANGED <<entry, pc, file_ok, time_signature, exc, signals, emitted,
                calls, printed, guiVars, keyVars, meterVars>>

\* lines 30-44: the tuple assignment of line 39 happens only when
\* librosa.load returned; when it raised, y and sr keep their values.
CallLoadAudio ==
    /\ \E ok \in BOOLEAN :
          IF ok
          THEN /\ y' = "wave"
               /\ sr' = "rate"
               /\ call_result' = "True"
               /\ load_succeeded' = TRUE
          ELSE /\ call_result' = "False"
               /\ UNCHANGED <<y, sr, load_succeeded>>
    /\ call' = "load_audio"
    /\ UNCHANGED <<bpm, chromagram>>
    /\ CallFrame

\* lines 46-55
CallExtractBpm ==
    /\ IF Loaded(y) THEN bpm' \in Tempos ELSE bpm' = bpm
    /\ call' = "extract_bpm"
    /\ call_result' = "None"
    /\ UNCHANGED <<y, sr, chromagram, load_succeeded>>
    /\ CallFrame

\* lines 57-67
CallExtractChromagram ==
    /\ IF Loaded(y)
       THEN \E m \in RunChromagrams : chromagram' = <<m>>
       ELSE chromagram' = chromagram
    /\ call' = "extract_chromagram"
    /\ call_result' = "None"
    /\ UNCHANGED <<y, sr, bpm, load_succeeded>>
    /\ CallFrame

\* lines 103-160: the method returns its estimate and assigns no attribute.
CallEstimateTimeSignature ==
    /\ IF Loaded(y)
       THEN call_result' \in TSOutcomes
       ELSE call_result' = "N/A"
    /\ call' = "estimate_time_signature"
    /\ UNCHANGED <<y, sr, bpm, chromagram, load_succeeded>>
    /\ CallFrame

\* A librosa call of a stage raises; it is made only on a loaded waveform
\* (lines 53, 65, 113-132) and the assignment that would follow is skipped.
CallRaises ==
    /\ Loaded(y)
    /\ call' \in {"extract_bpm", "extract_chromagram",
                  "estimate_time_signature"}
    /\ call_result' = "raised"
    /\ UNCHANGED <<y, sr, bpm, chromagram, load_succeeded>>
    /\ CallFrame

NextCalls ==
    \/ CallLoadAudio
    \/ CallExtractBpm \/ CallExtractChromagram \/ CallEstimateTimeSignature
    \/ CallRaises

SpecCalls == InitCalls /\ [][NextCalls]_vars

(***************************************************************************)
(* Claims about estimate_key (checked under SpecKey).                      *)
(***************************************************************************)
Tonics == 0..(NumPitches - 1)

KeyNames == {KeyString(t, m) : t \in Tonics, m \in BOOLEAN}

\* The aggregate vector has non-zero variance: its entries are not all equal.
HasVariance(x) == \E i, j \in 1..Len(x) : x[i] # x[j]

\* The chromagram whose aggregate vector is that of c rotated by k positions.
RollChroma(c, k) == [f \in 1..Len(c) |-> Roll(c[f], k)]

\* The key name k semitones above the key named by name.
Transposed(name, k) ==
    LET tm == CHOOSE tm \in Tonics \X BOOLEAN : KeyString(tm[1], tm[2]) = name
    IN  KeyString((tm[1] + k) % NumPitches, tm[2])

\* C1 (as claimed): with non-zero variance, rotating the aggregate vector by
\* k positions shifts the reported tonic by k semitones and keeps the mode.
C1_TranspositionInvariance ==
    (key_pc = "done" /\ HasVariance(chroma_sum)) =>
        \A k \in Tonics :
            estimate_key(RollChroma(chroma_features, k))
                = Transposed(key_result, k)

\* C2 (as claimed): with zero variance (all 24 correlations undefined) the
\* result is an "unknown key" fallback, none of the 24 pitch/mode names.
C2_ZeroVarianceFallback ==
    (key_pc = "done" /\ ~HasVariance(chroma_sum)) =>
        key_result \notin KeyNames

\* a = b on floats that are not NaN.
CorrEqual(a, b) == ~CorrGreater(a, b) /\ ~CorrGreater(b, a)

\* C3: with non-zero variance the 24 correlations are in the interleaved
\* order major(0), minor(0), major(1), ..., the chosen index is the smallest
\* one whose correlation equals the maximum, the tonic is index // 2 and the
\* mode is Major for an even index and Minor for an odd one.
C3_KeySelectionRule ==
    (key_pc = "done" /\ HasVariance(chroma_sum)) =>
        /\ Len(correlations) = 2 * NumPitches
        /\ \A i \in Tonics :
              /\ correlations[2 * i + 1]
                    = Corrcoef(chroma_sum, Roll(major_profile, i))
              /\ correlations[2 * i + 2]
                    = Corrcoef(chroma_sum, Roll(minor_profile, i))
        /\ best_match_index \in 0..(2 * NumPitches - 1)
        /\ \A n \in 1..(2 * NumPitches) :
              ~CorrGreater(correlations[n], correlations[best_match_index + 1])
        /\ \A n \in 1..best_match_index :
              CorrGreater(correlations[best_match_index + 1], correlations[n])
        /\ key_result
              = KeyString(best_match_index \div 2, best_match_index % 2 = 0)

\* C3 witness: a finished call on a vector with variance where the maximum
\* is shared by a later index, and a minor key (odd index) was chosen.
C3_Witness ==
    /\ key_pc = "done"
    /\ HasVariance(chroma_sum)
    /\ best_match_index % 2 = 1
    /\ \E n \in (best_match_index + 2)..(2 * NumPitches) :
          CorrEqual(correlations[n], correlations[best_match_index + 1])

\* The minor key with the notes of major key i: its tonic is 9 semitones up.
RelativeMinor(i) == (i + 9) % NumPitches

\* The names estimate_key can return according to C12, and those it cannot.
ReachableKeys ==
    {KeyString(t, TRUE) : t \in 0..2} \cup {KeyString(t, FALSE) : t \in 0..8}
UnreachableKeys ==
    {KeyString(t, TRUE) : t \in 3..11} \cup {KeyString(t, FALSE) : t \in 9..11}

\* C12: for every tonic i the profile of major key i and the profile of
\* minor key (i + 9) mod 12 are the same 12-vector and get the same
\* correlation with every aggregate vector, and the result is always one of
\* C Major, C# Major, D Major or a Minor key with tonic C..G#, never a Major
\* key with tonic D#..B nor a Minor key with tonic A, A# or B.
C12_RelativeKeysTie ==
    key_pc = "done" =>
        /\ \A i \in Tonics :
              /\ Roll(major_profile, i)
                    = Roll(minor_profile, RelativeMinor(i))
              /\ correlations[2 * i + 1]
                    = correlations[2 * RelativeMinor(i) + 2]
        /\ key_result \in ReachableKeys
        /\ key_result \notin UnreachableKeys

\* C12 witness: a finished call that reported a Minor key whose relative
\* major, later in the list, has the same, maximal, correlation.
C12_Witness ==
    /\ key_pc = "done"
    /\ HasVariance(chroma_sum)
    /\ \E t \in 0..8 :
          /\ key_result = KeyString(t, FALSE)
          /\ best_match_index = 2 * t + 1
          /\ correlations[2 * (t + 3) + 1] = correlations[best_match_index + 1]

(***************************************************************************)
(* Claims about estimate_time_signature (checked under SpecMeter).         *)
(***************************************************************************)
RECURSIVE SumOver(_, _)
SumOver(strengths, I) ==
    IF I = {} THEN 0
    ELSE LET i == CHOOSE i \in I : TRUE
         IN  strengths[i + 1] + SumOver(strengths, I \ {i})

\* The gap of meter m: the mean strength of the beats with index % m = 0
\* minus the mean strength of the beats with index % m # 0 (0-based).
Gap(strengths, m) ==
    LET idx == 0..(Len(strengths) - 1)
        down == {i \in idx : i % m = 0}
        rest == idx \ down
    IN  [num |-> SumOver(strengths, down) * Cardinality(rest)
                 - SumOver(strengths, rest) * Cardinality(down),
         den |-> Cardinality(down) * Cardinality(rest)]

Candidates == {2, 3, 4}

\* The earliest candidate whose gap is the largest of the three.
LargestGapMeter(strengths) ==
    CHOOSE m \in Candidates :
        /\ \A k \in Candidates :
              ~RatGreater(Gap(strengths, k), Gap(strengths, m))
        /\ \A k \in Candidates :
              k < m => RatGreater(Gap(strengths, m), Gap(strengths, k))

Zero == [num |-> 0, den |-> 1]

\* C4 (as claimed): with 4 or more scored beats the returned meter is the
\* earliest of 2, 3, 4 whose gap is the largest, also when every gap is zero
\* or negative.
C4_LargestGapAlways ==
    (ts_pc = "done" /\ ts_exit = "scored") =>
        ts_return = MeterString(LargestGapMeter(beat_strengths))

\* C4 (amended): with 4 or more scored beats the returned meter is the
\* earliest of 2, 3, 4 whose gap is the largest when that gap is positive,
\* and 4 when every gap is zero or negative.
C4_LargestPositiveGap ==
    (ts_pc = "done" /\ ts_exit = "scored") =>
        /\ Len(beat_strengths) >= 4
        /\ LET m == LargestGapMeter(beat_strengths)
           IN  ts_return =
                 MeterString(IF RatGreater(Gap(beat_strengths, m), Zero)
                             THEN m ELSE 4)

\* C4 witness: no gap is positive, the largest gap is not that of meter 4,
\* and "4/4" is returned.
C4_Witness ==
    /\ ts_pc = "done"
    /\ ts_exit = "scored"
    /\ LargestGapMeter(beat_strengths) # 4
    /\ ~RatGreater(Gap(beat_strengths, LargestGapMeter(beat_strengths)), Zero)
    /\ ts_return = "4/4"

\* The number of beat intervals of a beat track.
NumIntervals(b) == IF Len(b) = 0 THEN 0 ELSE Len(b) - 1

NumericMeters == {"2/4", "3/4", "4/4"}

\* C5: on a loaded waveform, fewer than 2 beat intervals give "N/A" (no
\* numeric meter), at least 2 intervals with fewer than 4 scored beats give
\* "4/4", and the scoring loop is reached only with 4 or more scored beats.
C5_ShortInputOutcomes ==
    /\ (ts_pc = "done" /\ ts_y = "wave"
            /\ NumIntervals(ts_input.beats) < 2) =>
          (ts_return = "N/A" /\ ts_return \notin NumericMeters)
    /\ (ts_pc = "done" /\ ts_y = "wave"
            /\ NumIntervals(ts_input.beats) >= 2
            /\ Len(ts_input.beats) < 4) =>
          (ts_return = "4/4" /\ Len(beat_strengths) = Len(ts_input.beats))
    /\ ts_pc = "loop" => Len(beat_strengths) >= 4
    /\ ts_exit = "scored" => Len(beat_strengths) >= 4

\* C5 witness: a loaded waveform with 3 beats (2 intervals) returned "4/4".
C5_Witness ==
    /\ ts_pc = "done"
    /\ ts_y = "wave"
    /\ Len(ts_input.beats) = 3
    /\ Len(beat_strengths) = 3
    /\ ts_return = "4/4"

\* The calls in which the scoring loop selected meter 4.
LoopSelectsFour(inp) ==
    /\ ~TooFewIntervals(Diff(inp.beats))
    /\ ~TooFewBeats(inp.beats)
    /\ LET st == MeterLoop(BeatStrengths(inp.beats, inp.onset),
                           MeterInit, Meters)
       IN  st.best_meter = 4 /\ RatGreater(st.max_diff, Zero)

\* C6 (as claimed): the output of a call that defaults to meter 4 (fewer
\* than 4 scored beats) differs from the output of every call in which the
\* scoring loop selected meter 4.
C6_DefaultDistinguishable ==
    (ts_pc = "done" /\ ts_exit = "default") =>
        \A inp \in TSInputs :
            LoopSelectsFour(inp) =>
                estimate_time_signature("wave", inp) # ts_return

\* C9 (as claimed): each beat's strength is the mean of the envelope at
\* the frames b-2 .. b+2 that lie inside the envelope.
C9_BeatStrengthWindow ==
    \A i \in 1..Len(beat_strengths) :
        LET b == beats[i]
            frames == {f \in (b - 2)..(b + 2) :
                          0 <= f /\ f < Len(onset_strength)}
        IN  beat_strengths[i] * Cardinality(frames)
              = Scale * SumOver(onset_strength, frames)

(***************************************************************************)
(* Claims about a run (checked under Spec).                                *)
(***************************************************************************)
Range(q) == {q[i] : i \in 1..Len(q)}

IsPrefix(a, b) == Len(a) <= Len(b) /\ a = SubSeq(b, 1, Len(a))

\* load_audio was executed and failed.
LoadFailed == "load_audio" \in Range(calls) /\ y = "None"

Placeholders == {"--", "Analyzing..."}

\* C7: when load_audio fails, no later stage is executed by run_analysis
\* or AnalysisWorker.run, the worker emits error and never result, and no
\* analysis result reaches the caller.
C7_LoadFailureShortCircuits ==
    LoadFailed =>
        /\ calls = <<"load_audio">>
        /\ "result" \notin Range(emitted)
        /\ (entry = "gui" /\ pc = "done") => emitted = <<"error", "finished">>
        /\ printed # "results"
        /\ bpm = 0 /\ chromagram = <<>> /\ time_signature = "N/A"
        /\ bpm_label \in Placeholders
        /\ key_label \in Placeholders
        /\ ts_label \in Placeholders

\* C7 witness: a GUI run whose load failed has ended and its signals have
\* been delivered.
C7_Witness ==
    /\ LoadFailed
    /\ entry = "gui"
    /\ pc = "done"
    /\ signals = <<>>
    /\ load_enabled

SpecOrder ==
    <<"load_audio", "extract_bpm", "extract_chromagram", "estimate_key",
      "estimate_time_signature">>

CodeOrder ==
    <<"load_audio", "extract_bpm", "extract_chromagram",
      "estimate_time_signature", "estimate_key">>

Protocols == {<<"result", "finished">>, <<"error", "finished">>}

\* C10: in every run of AnalysisWorker.run exactly one of result and error
\* is emitted, once, then finished once; result only when load, tempo,
\* chroma and time-signature stages all completed without raising.
C10_SignalProtocol ==
    entry = "gui" =>
        /\ \E q \in Protocols : IsPrefix(emitted, q)
        /\ pc = "done" => emitted \in Protocols
        /\ "result" \in Range(emitted) =>
              /\ exc = ""
              /\ y = "wave"
              /\ IsPrefix(SubSeq(CodeOrder, 1, 4), calls)

\* C10 witness: a worker run in which a stage after the load raised has
\* ended with error, then finished.
C10_Witness ==
    /\ entry = "gui"
    /\ pc = "done"
    /\ exc = "Exception"
    /\ emitted = <<"error", "finished">>

(***************************************************************************)
(* Claims about calls in any order (checked under SpecCalls).              *)
(***************************************************************************)
StageCalls == {"extract_bpm", "extract_chromagram"}

\* Results need a load: chromagram is set or bpm is not its initial 0.0 only
\* after some load_audio call returned True, and estimate_time_signature
\* called before that returned "N/A".
NeedsLoad ==
    /\ (chromagram # <<>> \/ bpm # 0) => load_succeeded
    /\ (call = "estimate_time_signature" /\ ~load_succeeded) =>
          call_result = "N/A"

\* A call of extract_bpm or extract_chromagram made before any successful
\* load leaves bpm, chromagram, y and sr as they were.
StageBeforeLoad ==
    (~load_succeeded /\ call' \in StageCalls) =>
        UNCHANGED <<bpm, chromagram, y, sr>>

\* C11: after any sequence of calls of load_audio, extract_bpm,
\* extract_chromagram and estimate_time_signature on one AudioAnalyser,
\* chromagram is set and bpm differs from 0.0 only if an earlier load_audio
\* succeeded; before any successful load, extract_bpm and extract_chromagram
\* leave bpm, chromagram, y and sr unchanged and estimate_time_signature
\* returns "N/A".
C11_StagesNeedLoad == []NeedsLoad /\ [][StageBeforeLoad]_vars

\* C11 witness: a stage called before any successful load has returned and
\* has left the analyser as __init__ made it.
C11_Witness ==
    /\ ~load_succeeded
    /\ call \in StageCalls
    /\ call_result = "None"
    /\ y = "None" /\ sr = "None" /\ bpm = 0 /\ chromagram = <<>>

====
